---- MODULE Spec2Model ----
(***************************************************************************)
(* Model of the Shopify "cases received" page (ShopifyCasesReceived): the  *)
(* identifier parser parseCaseIds, the batch processor handleProcess with  *)
(* its two remote lookups, and the four result buckets held in React       *)
(* state.  Text is modelled as a sequence of one-character strings.        *)
(***************************************************************************)
EXTENDS Integers, Sequences, FiniteSets, TLC

VARIABLES
    caseInput,        \* useState("")    the textarea's text
    processingCases,  \* useState([])    pending Shopify lookup
    existingCases,    \* useState([])    found in the database
    invalidCases,     \* useState([])    Shopify lookup failed
    successfulCases,  \* useState([])    fetched from Shopify
    loading,          \* useState(false)
    error,            \* useState(null)
    pc,               \* where the running handleProcess is suspended
    caseIds,          \* the const caseIds of the running handleProcess
    idx,              \* position of the for..of loop in caseIds
    log,              \* history: the calls, replies and bucket updates of the run
    rejected,         \* history: the last handler to run was a handleProcess
                      \* that returned at its validation
    lastHandler,      \* history: "clear" after handleClear, "restart" after a
                      \* handleProcess that replaced a finished run, else "other"
    parseIn,          \* parser harness: the raw text given to parseCaseIds
    parseOut,         \* parser harness: what parseCaseIds returned
    parsePc,          \* parser harness: "ready" | "done"
    statusCache,      \* let statusCache = null
    cacheLoadPromise, \* let cacheLoadPromise = null: 0, or the fetch it is the promise of
    fetches,          \* the invocations of fetchAndCacheStatuses, in order
    calls,            \* the calls of the status cache's entry points, in order
    storage,          \* localStorage: the keys authToken and user
    firebaseUser,     \* auth.currentUser is not null
    currentUser,      \* AuthProvider: useState(null)
    authType,         \* AuthProvider: useState(null)
    authLoading,      \* AuthProvider: useState(true)
    subscribed,       \* the onAuthStateChanged listener is registered
    location,         \* the route the router shows
    authPc,           \* where checkAuth, handleLogout or logout is suspended
    loggedOut,        \* history: the logout function that completed last
    statusUpdate      \* the status-update page: its useState values, where its
                      \* handleProcess is suspended, and the handler that ran last

vars == <<caseInput, processingCases, existingCases, invalidCases,
          successfulCases, loading, error, pc, caseIds, idx, log, rejected,
          lastHandler, parseIn, parseOut, parsePc,
          statusCache, cacheLoadPromise, fetches, calls,
          storage, firebaseUser, currentUser, authType, authLoading,
          subscribed, location, authPc, loggedOut, statusUpdate>>

compVars == <<caseInput, processingCases, existingCases, invalidCases,
              successfulCases, loading, error, pc, caseIds, idx, log, rejected,
              lastHandler>>

parseVars == <<parseIn, parseOut, parsePc>>

cacheVars == <<statusCache, cacheLoadPromise, fetches, calls>>

authVars == <<storage, firebaseUser, currentUser, authType, authLoading,
              subscribed, location, authPc, loggedOut>>

updateVars == <<statusUpdate>>

\* ------------------------------------------------------------------ bounds

\* Longest raw text given to the parser harness.
MaxLen == 4

\* Most calls of the status cache's entry points in one behaviour.
MaxCalls == 3

\* Most identifiers in one submitted batch.
MaxBatch == 2

\* ------------------------------------------------------------------- text

NULL == "null"

Digits == {"0", "1", "2", "3", "4", "5", "6", "7", "8", "9"}

\* What String.prototype.trim strips, among the characters of the model.
WhiteSpace == {" ", "\t", "\r", "\n"}

NL == "\n"

\* input.split("\n"): the pieces between the newlines, empty pieces kept.
RECURSIVE SplitFrom(_, _, _)
SplitFrom(s, i, cur) ==
    IF i > Len(s) THEN <<cur>>
    ELSE IF s[i] = NL THEN <<cur>> \o SplitFrom(s, i + 1, <<>>)
    ELSE SplitFrom(s, i + 1, Append(cur, s[i]))

Split(s) == SplitFrom(s, 1, <<>>)

RECURSIVE TrimStart(_)
TrimStart(s) ==
    IF s # <<>> /\ Head(s) \in WhiteSpace THEN TrimStart(Tail(s)) ELSE s

RECURSIVE TrimEnd(_)
TrimEnd(s) ==
    IF s # <<>> /\ s[Len(s)] \in WhiteSpace
    THEN TrimEnd(SubSeq(s, 1, Len(s) - 1)) ELSE s

\* line.trim()
Trim(s) == TrimEnd(TrimStart(s))

\* The number of leading digits of s from position i on: the greedy \d+.
RECURSIVE DigitRun(_, _)
DigitRun(s, i) ==
    IF i <= Len(s) /\ s[i] \in Digits THEN 1 + DigitRun(s, i + 1) ELSE 0

\* Mutant of TestDigits: the pattern without its end anchor, /^\d+/.
TestDigits_Unanchored(line) == DigitRun(line, 1) >= 1

\* /^\d+$/.test(line): anchored at 0, one digit at least, then the end.
TestDigits(line) == DigitRun(line, 1) >= 1 /\ DigitRun(line, 1) = Len(line)

\* The filter callback: line && /^\d+$/.test(line).
KeepLine(line) == line # <<>> /\ TestDigits(line)

RECURSIVE MapTrim(_)
MapTrim(ls) ==
    IF ls = <<>> THEN <<>> ELSE <<Trim(Head(ls))>> \o MapTrim(Tail(ls))

\* split, map(trim), filter, map(trim)
parseCaseIds(input) == MapTrim(SelectSeq(MapTrim(Split(input)), KeepLine))

\* value.replace(/[^\d\n]/g, "")
StripNonDigits(value) == SelectSeq(value, LAMBDA c : c \in Digits \/ c = NL)

\* ------------------------------------------------------- parser harness

Alphabet == {"1", "2", "a", " ", NL}

RawTexts == UNION {[1..n -> Alphabet] : n \in 0..MaxLen}

\* "123\nabc\n\n456\n12a"
ExampleMixed ==
    <<"1", "2", "3", NL, "a", "b", "c", NL, NL, "4", "5", "6", NL, "1", "2", "a">>

\* "1\n1"
ExampleDup == <<"1", NL, "1">>

\* " 7\r\n8 \r\n" as a scanner that sends CR LF would give it
ExampleCrLf == <<" ", "7", "\r", NL, "8", " ", "\r", NL>>

ParseInit ==
    /\ parseIn \in RawTexts \cup {ExampleMixed, ExampleDup, ExampleCrLf}
    /\ parseOut = <<>>
    /\ parsePc = "ready"

ParseCall ==
    /\ parsePc = "ready"
    /\ parseOut' = parseCaseIds(parseIn)
    /\ parsePc' = "done"
    /\ UNCHANGED parseIn

\* --------------------------------------------------------- lookup client

\* JavaScript's a || b on the texts of the model.
OrElse(a, b) == IF a \in {NULL, ""} THEN b ELSE a

\* A response that carries no caseData.caseData, or one without the fields:
\* every field read through ?. is undefined (falsy).
NoRecord ==
    [Status_Streamline_Options |-> NULL,
     Case_Date_Received |-> NULL,
     IsRushOrder |-> FALSE]

\* The record the database returns for a known case (caseData.caseData).
CaseRecords ==
    {[Status_Streamline_Options |-> "Received",
      Case_Date_Received |-> "2024-01-15",
      IsRushOrder |-> TRUE],
     NoRecord}

OrderPayloads == {"order#A"}

\* What apiFetch throws: an Error with a non-empty message.
ThrowMessages == {"Failed to fetch"}

\* One answer of apiPost: the parsed JSON body {status, data, message, code}
\* (kind "return") or the Error apiFetch threw (kind "throw").
Response(kind, status, exists, caseData, orderData, message, code) ==
    [kind |-> kind, status |-> status, exists |-> exists, caseData |-> caseData,
     orderData |-> orderData, message |-> message, code |-> code]

Thrown(m) == Response("throw", NULL, FALSE, NoRecord, NULL, m, NULL)

NoResponse == Response("none", NULL, FALSE, NoRecord, NULL, NULL, NULL)

\* What await apiPost("/cases/receive-case", {caseId}) can give.
PrimaryResponses ==
    {Response("return", "success", TRUE, r, NULL, NULL, NULL) : r \in CaseRecords}
    \cup {Response("return", "success", FALSE, NoRecord, NULL, NULL, NULL),
          Response("return", "error", FALSE, NoRecord, NULL, "Database unavailable", NULL)}
    \cup {Thrown(m) : m \in ThrowMessages}

\* What await apiPost("/shopify/fetch-order", {orderId}) can give.
SecondaryResponses ==
    {Response("return", "success", FALSE, NoRecord, o, NULL, NULL) : o \in OrderPayloads}
    \cup {Response("return", "error", FALSE, NoRecord, NULL, "order not found", "NOT_FOUND"),
          Response("return", "error", FALSE, NoRecord, NULL, NULL, NULL)}
    \cup {Thrown(m) : m \in ThrowMessages}

PrimaryEndpoint == "/cases/receive-case"

SecondaryEndpoint == "/shopify/fetch-order"

\* ------------------------------------------------------------- the page

\* The identifiers a user scans.
Ids == {<<"1">>, <<"2">>}

\* What the textarea's change event can carry, given the text it shows: one
\* more scanned identifier (a barcode scan ends with a newline), a stray
\* character typed at the end, or nothing after the text was deleted.
TypedTexts(shown) ==
    {shown \o id \o <<NL>> : id \in IF Len(parseCaseIds(shown)) < MaxBatch THEN Ids ELSE {}}
    \cup {shown \o <<"a">>, <<>>}

\* The error state holds a text, kept as the tuple of its parts; null is
\* the empty tuple.
NoError == <<>>

ValidationMessage == <<"Please enter valid case IDs (numerals only)">>

\* `Error processing case ${caseId}: ${err.message}`
ErrorText(caseId, message) == <<"Error processing case ", caseId, ": ", message>>

CompInit ==
    /\ caseInput = <<>>
    /\ processingCases = <<>>
    /\ existingCases = <<>>
    /\ invalidCases = <<>>
    /\ successfulCases = <<>>
    /\ loading = FALSE
    /\ error = NoError
    /\ pc = "idle"
    /\ caseIds = <<>>
    /\ idx = 0
    /\ log = <<>>
    /\ rejected = FALSE
    /\ lastHandler = "other"

\* One line of the run's history.
Entry(pos, id, kind, detail) == [pos |-> pos, id |-> id, kind |-> kind, detail |-> detail]

Call(pos, id, endpoint) == Entry(pos, id, "call:" \o endpoint, NoResponse)

Reply(pos, id, endpoint, resp) == Entry(pos, id, "reply:" \o endpoint, resp)

Event(pos, id, bucket) == Entry(pos, id, bucket, NoResponse)

\* Mutant of AppendEntry: the spread written after the new entry.
AppendEntry_Prepend(prev, entry) == <<entry>> \o prev

\* Mutant of AppendEntry: the previous entries are not spread.
AppendEntry_Replace(prev, entry) == <<entry>>

\* (prev) => [...prev, entry]
AppendEntry(prev, entry) == Append(prev, entry)

\* Mutant of RemoveCase: the filter keeps every entry.
RemoveCase_KeepsAll(prev, caseId) == prev

\* Mutant of RemoveCase: the filter's test is inverted.
RemoveCase_KeepsCase(prev, caseId) == SelectSeq(prev, LAMBDA item : item.caseId = caseId)

\* (prev) => prev.filter((item) => item.caseId !== caseId)
RemoveCase(prev, caseId) == SelectSeq(prev, LAMBDA item : item.caseId # caseId)

\* Mutant of ProcessDisabled: the button does not look at loading.
ProcessDisabled_IgnoresLoading == Len(parseCaseIds(caseInput)) = 0

\* <button onClick={handleProcess} disabled={loading || parseCaseIds(caseInput).length === 0}>
ProcessDisabled == loading \/ Len(parseCaseIds(caseInput)) = 0

\* Mutant of ClearDisabled: the Clear button is never disabled.
ClearDisabled_Never == FALSE

\* <button onClick={handleClear} disabled={loading}>
ClearDisabled == loading

\* Mutant of RejectEmpty: the buckets reset before the validation.
RejectEmpty_AfterReset ==
    /\ error' = ValidationMessage
    /\ rejected' = TRUE
    /\ lastHandler' = "other"
    /\ processingCases' = <<>>
    /\ existingCases' = <<>>
    /\ invalidCases' = <<>>
    /\ successfulCases' = <<>>
    /\ UNCHANGED <<caseInput, loading, pc, caseIds, idx, log>>

\* if (caseIds.length === 0) { setError(...); return; }
RejectEmpty ==
    /\ error' = ValidationMessage
    /\ rejected' = TRUE
    /\ lastHandler' = "other"
    /\ UNCHANGED <<caseInput, processingCases, existingCases, invalidCases,
                   successfulCases, loading, pc, caseIds, idx, log>>

\* Mutant of StartRun: the primary checks of all identifiers issued at once.
StartRun_AllAtOnce(ids) ==
    /\ loading' = TRUE
    /\ error' = NoError
    /\ processingCases' = <<>>
    /\ existingCases' = <<>>
    /\ invalidCases' = <<>>
    /\ successfulCases' = <<>>
    /\ caseIds' = ids
    /\ idx' = 1
    /\ pc' = "primary"
    /\ log' = [p \in 1..Len(ids) |-> Call(p, ids[p], PrimaryEndpoint)]
    /\ rejected' = FALSE
    /\ lastHandler' = IF pc = "done" THEN "restart" ELSE "other"
    /\ UNCHANGED caseInput

\* Mutant of StartRun: existingCases is not reset.
StartRun_KeepsExisting(ids) ==
    /\ loading' = TRUE
    /\ error' = NoError
    /\ processingCases' = <<>>
    /\ invalidCases' = <<>>
    /\ successfulCases' = <<>>
    /\ caseIds' = ids
    /\ idx' = 1
    /\ pc' = "primary"
    /\ log' = <<Call(1, ids[1], PrimaryEndpoint)>>
    /\ rejected' = FALSE
    /\ lastHandler' = IF pc = "done" THEN "restart" ELSE "other"
    /\ UNCHANGED <<caseInput, existingCases>>

\* The reset of the run's state and the first identifier's primary check.
StartRun(ids) ==
    /\ loading' = TRUE
    /\ error' = NoError
    /\ processingCases' = <<>>
    /\ existingCases' = <<>>
    /\ invalidCases' = <<>>
    /\ successfulCases' = <<>>
    /\ caseIds' = ids
    /\ idx' = 1
    /\ pc' = "primary"
    /\ log' = <<Call(1, ids[1], PrimaryEndpoint)>>
    /\ rejected' = FALSE
    /\ lastHandler' = IF pc = "done" THEN "restart" ELSE "other"
    /\ UNCHANGED caseInput

\* handleProcess up to its first await.
handleProcess ==
    LET ids == parseCaseIds(caseInput) IN
    IF Len(ids) = 0 THEN RejectEmpty ELSE StartRun(ids)

\* Mutant of NextCase: a failed Shopify lookup leaves the loop.
NextCase_StopOnFailure(history) ==
    IF idx < Len(caseIds) /\ history[Len(history)].kind # "invalid"
    THEN /\ idx' = idx + 1
         /\ pc' = "primary"
         /\ log' = Append(history, Call(idx + 1, caseIds[idx + 1], PrimaryEndpoint))
         /\ UNCHANGED loading
    ELSE /\ pc' = "done"
         /\ loading' = FALSE
         /\ log' = history
         /\ UNCHANGED idx

\* Mutant of NextCase: the loop ends without the finally block.
NextCase_NoFinally(history) ==
    IF idx < Len(caseIds)
    THEN /\ idx' = idx + 1
         /\ pc' = "primary"
         /\ log' = Append(history, Call(idx + 1, caseIds[idx + 1], PrimaryEndpoint))
         /\ UNCHANGED loading
    ELSE /\ pc' = "done"
         /\ log' = history
         /\ UNCHANGED <<idx, loading>>

\* The end of one pass of the for..of loop: the next identifier's primary
\* check is issued, or the finally block runs.
NextCase(history) ==
    IF idx < Len(caseIds)
    THEN /\ idx' = idx + 1
         /\ pc' = "primary"
         /\ log' = Append(history, Call(idx + 1, caseIds[idx + 1], PrimaryEndpoint))
         /\ UNCHANGED loading
    ELSE /\ pc' = "done"
         /\ loading' = FALSE
         /\ log' = history
         /\ UNCHANGED idx

\* Mutant of ExistingEntry: the returned record is not kept.
ExistingEntry_NoRecord(caseId, resp) ==
    [caseId |-> caseId,
     caseData |-> NoRecord,
     caseStatus |-> OrElse(resp.caseData.Status_Streamline_Options, "Unknown"),
     receivedDate |-> OrElse(resp.caseData.Case_Date_Received, "N/A"),
     isRush |-> (resp.caseData.IsRushOrder \/ FALSE)]

\* The entry appended to existingCases.
ExistingEntry(caseId, resp) ==
    [caseId |-> caseId,
     caseData |-> resp.caseData,
     caseStatus |-> OrElse(resp.caseData.Status_Streamline_Options, "Unknown"),
     receivedDate |-> OrElse(resp.caseData.Case_Date_Received, "N/A"),
     isRush |-> (resp.caseData.IsRushOrder \/ FALSE)]

\* Mutant of PendingEntry: the pending entry is stored without its identifier.
PendingEntry_NoId(caseId) == [caseId |-> <<>>, status |-> "Pending Shopify Lookup"]

PendingEntry(caseId) == [caseId |-> caseId, status |-> "Pending Shopify Lookup"]

\* Mutant of PrimaryDone: the Shopify lookup is called before the pending
\* entry is added.
PrimaryDone_LookupFirst(resp) ==
    LET caseId == caseIds[idx]
        heard == Append(log, Reply(idx, caseId, PrimaryEndpoint, resp))
    IN
    /\ pc = "primary"
    /\ rejected' = FALSE
    /\ lastHandler' = "other"
    /\ IF resp.kind = "throw"
       THEN \* catch (err): the message is kept, no bucket is touched
            /\ error' = ErrorText(caseId, resp.message)
            /\ NextCase(Append(heard, Event(idx, caseId, "error")))
            /\ UNCHANGED <<processingCases, existingCases, invalidCases,
                           successfulCases, caseIds, caseInput>>
       ELSE IF resp.status # "success"
       THEN \* the if has no else: the loop goes on
            /\ NextCase(heard)
            /\ UNCHANGED <<processingCases, existingCases, invalidCases,
                           successfulCases, caseIds, caseInput, error>>
       ELSE IF resp.exists
       THEN /\ existingCases' = AppendEntry(existingCases, ExistingEntry(caseId, resp))
            /\ NextCase(Append(heard, Event(idx, caseId, "existing")))
            /\ UNCHANGED <<processingCases, invalidCases, successfulCases,
                           caseIds, caseInput, error>>
       ELSE /\ processingCases' = AppendEntry(processingCases, PendingEntry(caseId))
            /\ log' = heard \o <<Call(idx, caseId, SecondaryEndpoint),
                                 Event(idx, caseId, "pending")>>
            /\ pc' = "secondary"
            /\ UNCHANGED <<existingCases, invalidCases, successfulCases,
                           caseIds, caseInput, error, idx, loading>>

\* Mutant of PrimaryDone: an error message already set is kept.
PrimaryDone_FirstErrorWins(resp) ==
    LET caseId == caseIds[idx]
        heard == Append(log, Reply(idx, caseId, PrimaryEndpoint, resp))
    IN
    /\ pc = "primary"
    /\ rejected' = FALSE
    /\ lastHandler' = "other"
    /\ IF resp.kind = "throw"
       THEN \* catch (err): the message is kept, no bucket is touched
            /\ error' = IF error = NoError THEN ErrorText(caseId, resp.message) ELSE error
            /\ NextCase(Append(heard, Event(idx, caseId, "error")))
            /\ UNCHANGED <<processingCases, existingCases, invalidCases,
                           successfulCases, caseIds, caseInput>>
       ELSE IF resp.status # "success"
       THEN \* the if has no else: the loop goes on
            /\ NextCase(heard)
            /\ UNCHANGED <<processingCases, existingCases, invalidCases,
                           successfulCases, caseIds, caseInput, error>>
       ELSE IF resp.exists
       THEN /\ existingCases' = AppendEntry(existingCases, ExistingEntry(caseId, resp))
            /\ NextCase(Append(heard, Event(idx, caseId, "existing")))
            /\ UNCHANGED <<processingCases, invalidCases, successfulCases,
                           caseIds, caseInput, error>>
       ELSE /\ processingCases' = AppendEntry(processingCases, PendingEntry(caseId))
            /\ log' = heard \o <<Event(idx, caseId, "pending"),
                                 Call(idx, caseId, SecondaryEndpoint)>>
            /\ pc' = "secondary"
            /\ UNCHANGED <<existingCases, invalidCases, successfulCases,
                           caseIds, caseInput, error, idx, loading>>

\* handleProcess resumed by the primary check of caseIds[idx].
PrimaryDone(resp) ==
    LET caseId == caseIds[idx]
        heard == Append(log, Reply(idx, caseId, PrimaryEndpoint, resp))
    IN
    /\ pc = "primary"
    /\ rejected' = FALSE
    /\ lastHandler' = "other"
    /\ IF resp.kind = "throw"
       THEN \* catch (err): the message is kept, no bucket is touched
            /\ error' = ErrorText(caseId, resp.message)
            /\ NextCase(Append(heard, Event(idx, caseId, "error")))
            /\ UNCHANGED <<processingCases, existingCases, invalidCases,
                           successfulCases, caseIds, caseInput>>
       ELSE IF resp.status # "success"
       THEN \* the if has no else: the loop goes on
            /\ NextCase(heard)
            /\ UNCHANGED <<processingCases, existingCases, invalidCases,
                           successfulCases, caseIds, caseInput, error>>
       ELSE IF resp.exists
       THEN /\ existingCases' = AppendEntry(existingCases, ExistingEntry(caseId, resp))
            /\ NextCase(Append(heard, Event(idx, caseId, "existing")))
            /\ UNCHANGED <<processingCases, invalidCases, successfulCases,
                           caseIds, caseInput, error>>
       ELSE /\ processingCases' = AppendEntry(processingCases, PendingEntry(caseId))
            /\ log' = heard \o <<Event(idx, caseId, "pending"),
                                 Call(idx, caseId, SecondaryEndpoint)>>
            /\ pc' = "secondary"
            /\ UNCHANGED <<existingCases, invalidCases, successfulCases,
                           caseIds, caseInput, error, idx, loading>>

\* Mutant of SuccessEntry: the fetched order is logged but not stored.
SuccessEntry_NoPayload(caseId, resp) ==
    [caseId |-> caseId, orderData |-> NULL, status |-> "Successfully Processed"]

SuccessEntry(caseId, resp) ==
    [caseId |-> caseId, orderData |-> resp.orderData,
     status |-> "Successfully Processed"]

\* Mutant of InvalidEntry: the response's message and code are not read.
InvalidEntry_NoReason(caseId, resp) ==
    [caseId |-> caseId,
     reason |-> "Shopify lookup failed",
     errorCode |-> IF resp.kind = "throw" THEN NULL ELSE "UNKNOWN_ERROR",
     orderData |-> NULL]

\* The entry appended to invalidCases: from a failure response, or from a
\* caught error (which carries no errorCode).
InvalidEntry(caseId, resp) ==
    IF resp.kind = "throw"
    THEN [caseId |-> caseId,
          reason |-> OrElse(resp.message, "Order not found in Shopify"),
          errorCode |-> NULL,
          orderData |-> NULL]
    ELSE [caseId |-> caseId,
          reason |-> OrElse(resp.message, "Shopify lookup failed"),
          errorCode |-> OrElse(resp.code, "UNKNOWN_ERROR"),
          orderData |-> NULL]

\* Mutant of SecondaryDone: after a failed lookup the pending entry is
\* removed and nothing is appended to invalidCases.
SecondaryDone_FailureDropped(resp) ==
    LET caseId == caseIds[idx]
        heard == Append(log, Reply(idx, caseId, SecondaryEndpoint, resp))
    IN
    /\ pc = "secondary"
    /\ rejected' = FALSE
    /\ lastHandler' = "other"
    /\ processingCases' = RemoveCase(processingCases, caseId)
    /\ IF resp.kind = "return" /\ resp.status = "success"
       THEN /\ successfulCases' = AppendEntry(successfulCases, SuccessEntry(caseId, resp))
            /\ NextCase(Append(heard, Event(idx, caseId, "successful")))
            /\ UNCHANGED invalidCases
       ELSE /\ UNCHANGED invalidCases
            /\ NextCase(Append(heard, Event(idx, caseId, "invalid")))
            /\ UNCHANGED successfulCases
    /\ UNCHANGED <<existingCases, caseIds, caseInput, error>>

\* handleProcess resumed by the Shopify lookup of caseIds[idx].
SecondaryDone(resp) ==
    LET caseId == caseIds[idx]
        heard == Append(log, Reply(idx, caseId, SecondaryEndpoint, resp))
    IN
    /\ pc = "secondary"
    /\ rejected' = FALSE
    /\ lastHandler' = "other"
    /\ processingCases' = RemoveCase(processingCases, caseId)
    /\ IF resp.kind = "return" /\ resp.status = "success"
       THEN /\ successfulCases' = AppendEntry(successfulCases, SuccessEntry(caseId, resp))
            /\ NextCase(Append(heard, Event(idx, caseId, "successful")))
            /\ UNCHANGED invalidCases
       ELSE /\ invalidCases' = AppendEntry(invalidCases, InvalidEntry(caseId, resp))
            /\ NextCase(Append(heard, Event(idx, caseId, "invalid")))
            /\ UNCHANGED successfulCases
    /\ UNCHANGED <<existingCases, caseIds, caseInput, error>>

\* Mutant of handleClear: the textarea is not emptied.
handleClear_KeepsInput ==
    /\ processingCases' = <<>>
    /\ existingCases' = <<>>
    /\ invalidCases' = <<>>
    /\ successfulCases' = <<>>
    /\ error' = NoError
    /\ rejected' = FALSE
    /\ lastHandler' = "clear"
    /\ UNCHANGED <<loading, caseInput>>

\* The Clear button's handler: input, buckets and error message emptied.
handleClear ==
    /\ caseInput' = <<>>
    /\ processingCases' = <<>>
    /\ existingCases' = <<>>
    /\ invalidCases' = <<>>
    /\ successfulCases' = <<>>
    /\ error' = NoError
    /\ rejected' = FALSE
    /\ lastHandler' = "clear"
    /\ UNCHANGED loading

\* Mutant of handleInputChange: an edit also empties the four buckets.
handleInputChange_ClearsBuckets(value) ==
    /\ caseInput' = StripNonDigits(value)
    /\ rejected' = FALSE
    /\ lastHandler' = "other"
    /\ processingCases' = <<>>
    /\ existingCases' = <<>>
    /\ invalidCases' = <<>>
    /\ successfulCases' = <<>>
    /\ UNCHANGED <<loading, error, pc, caseIds, idx, log>>

\* The textarea's onChange: everything but digits and newlines is removed.
handleInputChange(value) ==
    /\ caseInput' = StripNonDigits(value)
    /\ rejected' = FALSE
    /\ lastHandler' = "other"
    /\ UNCHANGED <<processingCases, existingCases, invalidCases, successfulCases,
                   loading, error, pc, caseIds, idx, log>>

\* --------------------------------------------------------- the status cache

\* The value of statusCache: null until a fetch has stored the statuses.
NotLoaded == [loaded |-> FALSE, statuses |-> <<>>]

Loaded(statuses) == [loaded |-> TRUE, statuses |-> statuses]

\* The rows the backend knows.
StatusRows == <<[Status_ID |-> 1, Status_Streamline_Options |-> "Received"]>>

\* The statusId arguments: one the backend knows and one it does not.
StatusIds == {1, 2}

\* The arguments the entry points are called with.
StatusCalls ==
    ({"getStatusById", "getStatusNameById"} \X StatusIds)
        \cup ({"getAllStatuses", "initializeStatusCache"} \X {1})

\* What await apiPost("/status/statuses") can give: a body with the statuses,
\* a success body without them, a failure body, or a thrown error.
StatusResponses ==
    {[kind |-> "return", status |-> "success", hasStatuses |-> TRUE, statuses |-> StatusRows],
     [kind |-> "return", status |-> "success", hasStatuses |-> FALSE, statuses |-> <<>>],
     [kind |-> "return", status |-> "error", hasStatuses |-> FALSE, statuses |-> <<>>],
     [kind |-> "throw", status |-> NULL, hasStatuses |-> FALSE, statuses |-> <<>>]}

\* One invocation of fetchAndCacheStatuses, that is one statuses request:
\* pending until apiPost returns, then settled with the value it resolves to.
PendingFetch == [state |-> "pending", cached |-> FALSE, value |-> <<>>]

SettledFetch(cached, value) == [state |-> "settled", cached |-> cached, value |-> value]

\* What an entry point hands to its caller.
StatusResult(rows, name) == [rows |-> rows, name |-> name]

NoResult == StatusResult(<<>>, NULL)

\* statuses.find((status) => status.Status_ID === statusId) || null
FindStatus(statuses, statusId) ==
    LET found == SelectSeq(statuses, LAMBDA status : status.Status_ID = statusId)
    IN  IF found = <<>> THEN <<>> ELSE <<found[1]>>

\* The value of the entry point, given the array getStatusCache resolved to.
ResultOf(api, statusId, statuses) ==
    IF api = "getStatusById"
    THEN StatusResult(FindStatus(statuses, statusId), NULL)
    ELSE IF api = "getStatusNameById"
    THEN LET status == FindStatus(statuses, statusId)
         IN  StatusResult(<<>>, IF status # <<>>
                               THEN status[1].Status_Streamline_Options
                               ELSE "Unknown")
    ELSE IF api = "getAllStatuses"
    THEN StatusResult(statuses, NULL)
    ELSE NoResult

\* One call of an entry point: where its getStatusCache is suspended and the
\* promise it awaits.
StatusCall(api, statusId, at, promise, result) ==
    [api |-> api, statusId |-> statusId, pc |-> at, promise |-> promise,
     result |-> result]

CacheInit ==
    /\ statusCache = NotLoaded
    /\ cacheLoadPromise = 0
    /\ fetches = <<>>
    /\ calls = <<>>

\* Mutant of FetchInProgress: the promise of a running fetch is not looked at.
FetchInProgress_Never == FALSE

\* if (cacheLoadPromise)
FetchInProgress == cacheLoadPromise # 0

\* getStatusCache, called through an entry point, up to its return or await.
getStatusCache(api, statusId) ==
    IF statusCache.loaded
    THEN /\ calls' = Append(calls, StatusCall(api, statusId, "done", 0,
                                ResultOf(api, statusId, statusCache.statuses)))
         /\ UNCHANGED <<statusCache, cacheLoadPromise, fetches>>
    ELSE IF FetchInProgress
    THEN /\ calls' = Append(calls, StatusCall(api, statusId, "shared",
                                cacheLoadPromise, NoResult))
         /\ UNCHANGED <<statusCache, cacheLoadPromise, fetches>>
    ELSE /\ fetches' = Append(fetches, PendingFetch)
         /\ cacheLoadPromise' = Len(fetches) + 1
         /\ calls' = Append(calls, StatusCall(api, statusId, "own",
                                Len(fetches) + 1, NoResult))
         /\ UNCHANGED statusCache

\* fetchAndCacheStatuses resumed by its apiPost.
fetchAndCacheStatuses(f, resp) ==
    /\ fetches[f].state = "pending"
    /\ IF resp.kind = "return" /\ resp.status = "success" /\ resp.hasStatuses
       THEN /\ statusCache' = Loaded(resp.statuses)
            /\ fetches' = [fetches EXCEPT ![f] = SettledFetch(TRUE, resp.statuses)]
       ELSE /\ fetches' = [fetches EXCEPT ![f] = SettledFetch(FALSE, <<>>)]
            /\ UNCHANGED statusCache
    /\ UNCHANGED <<cacheLoadPromise, calls>>

\* getStatusCache resumed after `await cacheLoadPromise`, in the call that
\* started the fetch.
ResumeOwner(c) ==
    /\ calls[c].pc = "own"
    /\ fetches[calls[c].promise].state = "settled"
    /\ cacheLoadPromise' = 0
    /\ calls' = [calls EXCEPT ![c].pc = "done",
                              ![c].result = ResultOf(calls[c].api, calls[c].statusId,
                                                     fetches[calls[c].promise].value)]
    /\ UNCHANGED <<statusCache, fetches>>

\* A call that was handed the running fetch's promise gets its value.
ResumeWaiter(c) ==
    /\ calls[c].pc = "shared"
    /\ fetches[calls[c].promise].state = "settled"
    /\ calls' = [calls EXCEPT ![c].pc = "done",
                              ![c].result = ResultOf(calls[c].api, calls[c].statusId,
                                                     fetches[calls[c].promise].value)]
    /\ UNCHANGED <<statusCache, cacheLoadPromise, fetches>>

\* Some code of the application calls an entry point of the status cache.
CallStatusApi ==
    /\ Len(calls) < MaxCalls
    /\ \E call \in StatusCalls : getStatusCache(call[1], call[2])
    /\ UNCHANGED <<compVars, parseVars, authVars, updateVars>>

StatusesReturn ==
    /\ \E f \in DOMAIN fetches : \E resp \in StatusResponses :
          fetchAndCacheStatuses(f, resp)
    /\ UNCHANGED <<compVars, parseVars, authVars, updateVars>>

OwnerResumes ==
    (\E c \in DOMAIN calls : ResumeOwner(c)) /\ UNCHANGED <<compVars, parseVars, authVars, updateVars>>

WaiterResumes ==
    (\E c \in DOMAIN calls : ResumeWaiter(c)) /\ UNCHANGED <<compVars, parseVars, authVars, updateVars>>

\* refreshStatusCache up to its return: the cache is dropped and a fetch is
\* started whose promise is handed to the caller; cacheLoadPromise is not set.
refreshStatusCache ==
    /\ statusCache' = NotLoaded
    /\ fetches' = Append(fetches, PendingFetch)
    /\ calls' = Append(calls, StatusCall("refreshStatusCache", 1, "refresh",
                                         Len(fetches) + 1, NoResult))
    /\ UNCHANGED cacheLoadPromise

\* The caller of refreshStatusCache gets the value of its fetch.
ResumeRefresher(c) ==
    /\ calls[c].pc = "refresh"
    /\ fetches[calls[c].promise].state = "settled"
    /\ calls' = [calls EXCEPT ![c].pc = "done",
                              ![c].result = StatusResult(fetches[calls[c].promise].value, NULL)]
    /\ UNCHANGED <<statusCache, cacheLoadPromise, fetches>>

\* Some code of the application calls refreshStatusCache.
CallRefresh ==
    /\ Len(calls) < MaxCalls
    /\ refreshStatusCache
    /\ UNCHANGED <<compVars, parseVars, authVars, updateVars>>

RefresherResumes ==
    (\E c \in DOMAIN calls : ResumeRefresher(c)) /\ UNCHANGED <<compVars, parseVars, authVars, updateVars>>

\* ------------------------------------------------------- authentication

\* ROUTES
HomeRoute == "/"

ProtectedRoutes ==
    {"/dashboard",
     "/dashboard/shopify-cases-received",
     "/dashboard/generic-case-status-update",
     "/dashboard/cases-shipped-to-customer"}

Routes == {HomeRoute} \cup ProtectedRoutes

\* localStorage: whether the keys authToken and user are present.
StorageWith(token, user) == [authToken |-> token, user |-> user]

EmptyStorage == StorageWith(FALSE, FALSE)

\* The values of currentUser.
LocalUser == "local user"

FirebaseUser == "firebase user"

\* What the router shows for a route: a ProtectedRoute without a user
\* renders <Navigate to={ROUTES.HOME} />.
Shown(route, isLoading, user) ==
    IF route \in ProtectedRoutes /\ ~isLoading /\ user = NULL
    THEN HomeRoute
    ELSE route

\* The application loaded in the browser at a route: the AuthProvider is
\* mounted and its effect has not run.
AuthAtLoad(token, user, session, route) ==
    /\ storage = StorageWith(token, user)
    /\ firebaseUser = session
    /\ currentUser = NULL
    /\ authType = NULL
    /\ authLoading = TRUE
    /\ subscribed = FALSE
    /\ location = route
    /\ authPc = "mount"
    /\ loggedOut = "no"

AuthInit ==
    \E token, user, session \in BOOLEAN : \E route \in Routes :
        AuthAtLoad(token, user, session, route)

\* The callback given to onAuthStateChanged.
AuthStateCallback(session) ==
    /\ currentUser' = IF session THEN FirebaseUser ELSE NULL
    /\ authType' = IF session THEN "firebase" ELSE NULL
    /\ authLoading' = FALSE

\* checkAuth, run by the AuthProvider's effect.
checkAuth ==
    /\ authPc = "mount"
    /\ IF storage.authToken /\ storage.user
       THEN /\ currentUser' = LocalUser
            /\ authType' = "local"
            /\ authLoading' = FALSE
            /\ authPc' = "rest"
            /\ location' = Shown(location, FALSE, LocalUser)
            /\ UNCHANGED subscribed
       ELSE /\ subscribed' = TRUE
            /\ authPc' = "listen"
            /\ UNCHANGED <<currentUser, authType, authLoading, location>>
    /\ UNCHANGED <<storage, firebaseUser, loggedOut>>

\* The listener's first call, with the session Firebase restored.
AuthStateChanged ==
    /\ authPc = "listen"
    /\ AuthStateCallback(firebaseUser)
    /\ authPc' = "rest"
    /\ location' = Shown(location, FALSE, currentUser')
    /\ UNCHANGED <<storage, firebaseUser, subscribed, loggedOut>>

\* The user follows a link or enters an address.
Navigate(route) ==
    /\ authPc = "rest"
    /\ location' = Shown(route, authLoading, currentUser)
    /\ UNCHANGED <<storage, firebaseUser, currentUser, authType, authLoading,
                   subscribed, authPc, loggedOut>>

\* signOut resolved: the session is gone and a subscribed listener is told.
SignedOut ==
    /\ firebaseUser' = FALSE
    /\ IF subscribed
       THEN AuthStateCallback(FALSE)
       ELSE UNCHANGED <<currentUser, authType, authLoading>>

\* Layout.handleLogout up to `await signOut(auth)`; the Logout button is on
\* the pages of the protected routes.
handleLogout ==
    /\ authPc = "rest"
    /\ location \in ProtectedRoutes
    /\ authPc' = "handleLogout"
    /\ UNCHANGED <<storage, firebaseUser, currentUser, authType, authLoading,
                   subscribed, location, loggedOut>>

\* Layout.handleLogout resumed: navigate(ROUTES.HOME), or the catch.
handleLogoutResumed(thrown) ==
    /\ authPc = "handleLogout"
    /\ authPc' = "rest"
    /\ IF thrown
       THEN UNCHANGED <<firebaseUser, currentUser, authType, authLoading,
                        location, loggedOut>>
       ELSE /\ SignedOut
            /\ location' = HomeRoute
            /\ loggedOut' = "handleLogout"
    /\ UNCHANGED <<storage, subscribed>>

\* The context's logout up to its return or `await auth.signOut()`.
logout ==
    /\ authPc = "rest"
    /\ storage' = EmptyStorage
    /\ IF authType = "firebase" /\ firebaseUser
       THEN /\ authPc' = "logout"
            /\ UNCHANGED <<currentUser, authType, location, loggedOut>>
       ELSE /\ currentUser' = NULL
            /\ authType' = NULL
            /\ loggedOut' = "logout"
            /\ location' = Shown(location, authLoading, NULL)
            /\ UNCHANGED authPc
    /\ UNCHANGED <<firebaseUser, authLoading, subscribed>>

\* The context's logout resumed: the two setters, or the catch.
logoutResumed(thrown) ==
    /\ authPc = "logout"
    /\ authPc' = "rest"
    /\ IF thrown
       THEN UNCHANGED <<firebaseUser, currentUser, authType, authLoading,
                        location, loggedOut>>
       ELSE /\ firebaseUser' = FALSE
            /\ currentUser' = NULL
            /\ authType' = NULL
            /\ loggedOut' = "logout"
            /\ location' = Shown(location, authLoading, NULL)
            /\ UNCHANGED authLoading
    /\ UNCHANGED <<storage, subscribed>>

\* The page is loaded anew: the AuthProvider is mounted again.
Remount(token, user, route) ==
    /\ storage' = StorageWith(token, user)
    /\ currentUser' = NULL
    /\ authType' = NULL
    /\ authLoading' = TRUE
    /\ subscribed' = FALSE
    /\ location' = route
    /\ authPc' = "mount"
    /\ UNCHANGED <<firebaseUser, loggedOut>>

\* The user reloads the page.
Reload ==
    /\ authPc = "rest"
    /\ Remount(storage.authToken, storage.user, location)

\* apiFetch on a 401 response: both keys removed, window.location.href = "/".
Unauthorized ==
    /\ authPc = "rest"
    /\ currentUser # NULL
    /\ Remount(FALSE, FALSE, HomeRoute)

\* The steps of the authentication model.
AuthMounts == checkAuth /\ UNCHANGED <<compVars, parseVars, cacheVars, updateVars>>

AuthListenerCalled == AuthStateChanged /\ UNCHANGED <<compVars, parseVars, cacheVars, updateVars>>

UserNavigates ==
    (\E route \in Routes : Navigate(route)) /\ UNCHANGED <<compVars, parseVars, cacheVars, updateVars>>

ClickLogout == handleLogout /\ UNCHANGED <<compVars, parseVars, cacheVars, updateVars>>

LayoutSignOutReturns ==
    (\E thrown \in BOOLEAN : handleLogoutResumed(thrown))
        /\ UNCHANGED <<compVars, parseVars, cacheVars, updateVars>>

CallLogout == logout /\ UNCHANGED <<compVars, parseVars, cacheVars, updateVars>>

ContextSignOutReturns ==
    (\E thrown \in BOOLEAN : logoutResumed(thrown))
        /\ UNCHANGED <<compVars, parseVars, cacheVars, updateVars>>

UserReloads == Reload /\ UNCHANGED <<compVars, parseVars, cacheVars, updateVars>>

ApiAnswers401 == Unauthorized /\ UNCHANGED <<compVars, parseVars, cacheVars, updateVars>>

\* The authentication state the other specifications hold fixed: a local
\* user's page load.
AuthPinned == AuthAtLoad(TRUE, TRUE, FALSE, "/dashboard/shopify-cases-received")

\* ------------------------------------------- the status-update page

\* What GET /status/statuses can carry: the statuses of the backend, none of
\* which has an email template here.
UpdateStatuses ==
    <<[Status_ID |-> 1, Status_Streamline_Options |-> "Received", Email_Template_Id |-> NULL]>>

\* The answers of GET /status/statuses: the statuses, a body without
\* statuses, or a throw.
UpdateStatusResponses ==
    {[kind |-> "ok", statuses |-> UpdateStatuses, message |-> NULL],
     [kind |-> "no statuses", statuses |-> <<>>, message |-> NULL],
     [kind |-> "throw", statuses |-> <<>>, message |-> "Failed to fetch"]}

\* The value attribute of a status's option: the Status_ID as a string.
OptionValue(status) == IF status.Status_ID = 1 THEN "1" ELSE "2"

\* The values the select can take: the placeholder and one per status.
OptionValues(statuses) == {""} \cup {OptionValue(statuses[i]) : i \in DOMAIN statuses}

MissingStatusMessage == <<"Please select a status">>

\* `Failed to load statuses: ${err.message}`
LoadErrorText(message) == <<"Failed to load statuses: ", message>>

\* The component after its first render and the mount effect: fetchStatuses
\* is suspended at its apiGet.
UpdateInit ==
    statusUpdate =
        [statuses |-> <<>>, selectedStatus |-> "", emailTemplate |-> NULL,
         sendEmail |-> TRUE, loadingStatuses |-> TRUE, loadingTemplate |-> FALSE,
         caseInput |-> <<>>, processingCases |-> <<>>, successfulCases |-> <<>>,
         notFoundCases |-> <<>>, loading |-> FALSE, error |-> NoError,
         statusesPc |-> "apiGet", pc |-> "idle", caseIds |-> <<>>, idx |-> 0,
         handler |-> "mount"]

\* fetchStatuses from its await to its end.
fetchStatuses(resp) ==
    /\ statusUpdate.statusesPc = "apiGet"
    /\ statusUpdate' =
          [statusUpdate EXCEPT
              !.statuses = IF resp.kind = "throw" THEN @ ELSE resp.statuses,
              !.error = IF resp.kind = "throw" THEN LoadErrorText(resp.message) ELSE @,
              !.loadingStatuses = FALSE,
              !.statusesPc = "done",
              !.handler = "fetchStatuses"]

\* The select's onChange and the effect on selectedStatus that follows it: no
\* status has a template, so the template is dropped; the checkbox is set
\* again when a status is selected.
setSelectedStatus(value) ==
    /\ ~statusUpdate.loadingStatuses
    /\ statusUpdate' =
          [statusUpdate EXCEPT
              !.selectedStatus = value,
              !.emailTemplate = NULL,
              !.sendEmail = IF value # "" THEN TRUE ELSE @,
              !.handler = "setSelectedStatus"]

\* The textarea's onChange of the status-update page.
Update_handleInputChange(value) ==
    statusUpdate' = [statusUpdate EXCEPT !.caseInput = StripNonDigits(value),
                                         !.handler = "handleInputChange"]

\* The status-update page's Process button is disabled.
Update_ProcessDisabled ==
    \/ statusUpdate.loading
    \/ statusUpdate.selectedStatus = ""
    \/ Len(parseCaseIds(statusUpdate.caseInput)) = 0

ProcessingEntry(caseId) == [caseId |-> caseId, status |-> "Processing..."]

\* The timestamp of the entry is left out.
ReadyEntry(caseId) == [caseId |-> caseId, status |-> "Ready for Update"]

NotFoundEntry(caseId) == [caseId |-> caseId, reason |-> "Case not found in database"]

\* Mutant of Update_handleProcess: the identifier list is checked before the
\* status.
Update_handleProcess_IdsFirst ==
    LET ids == parseCaseIds(statusUpdate.caseInput) IN
    IF Len(ids) = 0
    THEN statusUpdate' = [statusUpdate EXCEPT !.error = ValidationMessage,
                                              !.handler = "handleProcess"]
    ELSE IF statusUpdate.selectedStatus = ""
    THEN statusUpdate' = [statusUpdate EXCEPT !.error = MissingStatusMessage,
                                              !.handler = "handleProcess"]
    ELSE statusUpdate' =
            [statusUpdate EXCEPT
                !.loading = TRUE, !.error = NoError,
                !.processingCases = <<ProcessingEntry(ids[1])>>,
                !.successfulCases = <<>>, !.notFoundCases = <<>>,
                !.pc = "setTimeout", !.caseIds = ids, !.idx = 1,
                !.handler = "handleProcess"]

\* The status-update page's handleProcess up to its first await: the two
\* validations, then the reset of the buckets and the first identifier's
\* processing entry.
Update_handleProcess ==
    LET ids == parseCaseIds(statusUpdate.caseInput) IN
    IF statusUpdate.selectedStatus = ""
    THEN statusUpdate' = [statusUpdate EXCEPT !.error = MissingStatusMessage,
                                              !.handler = "handleProcess"]
    ELSE IF Len(ids) = 0
    THEN statusUpdate' = [statusUpdate EXCEPT !.error = ValidationMessage,
                                              !.handler = "handleProcess"]
    ELSE statusUpdate' =
            [statusUpdate EXCEPT
                !.loading = TRUE, !.error = NoError,
                !.processingCases = <<ProcessingEntry(ids[1])>>,
                !.successfulCases = <<>>, !.notFoundCases = <<>>,
                !.pc = "setTimeout", !.caseIds = ids, !.idx = 1,
                !.handler = "handleProcess"]

\* Mutant of lookupDone: the identifier is appended to both buckets.
lookupDone_BothBuckets(found) ==
    /\ statusUpdate.pc = "setTimeout"
    /\ LET caseId == statusUpdate.caseIds[statusUpdate.idx]
           last == statusUpdate.idx = Len(statusUpdate.caseIds)
           removed == RemoveCase(statusUpdate.processingCases, caseId)
       IN statusUpdate' =
            [statusUpdate EXCEPT
                !.processingCases =
                    IF last THEN removed
                    ELSE AppendEntry(removed, ProcessingEntry(statusUpdate.caseIds[statusUpdate.idx + 1])),
                !.successfulCases = AppendEntry(@, ReadyEntry(caseId)),
                !.notFoundCases = AppendEntry(@, NotFoundEntry(caseId)),
                !.idx = IF last THEN @ ELSE @ + 1,
                !.pc = IF last THEN "done" ELSE "setTimeout",
                !.loading = IF last THEN FALSE ELSE @,
                !.handler = "setTimeout"]

\* handleProcess from the timer's firing to its next await or its end: the
\* identifier leaves the processing bucket, Math.random() > 0.3 (found)
\* chooses its bucket, and either the next identifier's processing entry is
\* added or the finally block clears loading.
lookupDone(found) ==
    /\ statusUpdate.pc = "setTimeout"
    /\ LET caseId == statusUpdate.caseIds[statusUpdate.idx]
           last == statusUpdate.idx = Len(statusUpdate.caseIds)
           removed == RemoveCase(statusUpdate.processingCases, caseId)
       IN statusUpdate' =
            [statusUpdate EXCEPT
                !.processingCases =
                    IF last THEN removed
                    ELSE AppendEntry(removed, ProcessingEntry(statusUpdate.caseIds[statusUpdate.idx + 1])),
                !.successfulCases = IF found THEN AppendEntry(@, ReadyEntry(caseId)) ELSE @,
                !.notFoundCases = IF found THEN @ ELSE AppendEntry(@, NotFoundEntry(caseId)),
                !.idx = IF last THEN @ ELSE @ + 1,
                !.pc = IF last THEN "done" ELSE "setTimeout",
                !.loading = IF last THEN FALSE ELSE @,
                !.handler = "setTimeout"]

\* The status-update page's handleClear; the finished run is forgotten.
Update_handleClear ==
    statusUpdate' =
        [statusUpdate EXCEPT
            !.selectedStatus = "", !.emailTemplate = NULL, !.sendEmail = TRUE,
            !.caseInput = <<>>, !.processingCases = <<>>, !.successfulCases = <<>>,
            !.notFoundCases = <<>>, !.error = NoError,
            !.pc = "idle", !.caseIds = <<>>, !.idx = 0,
            !.handler = "handleClear"]

StatusesFetched ==
    (\E resp \in UpdateStatusResponses : fetchStatuses(resp))
        /\ UNCHANGED <<compVars, parseVars, cacheVars, authVars>>

SelectStatus ==
    (\E value \in OptionValues(statusUpdate.statuses) : setSelectedStatus(value))
        /\ UNCHANGED <<compVars, parseVars, cacheVars, authVars>>

UpdateInputChange ==
    (\E value \in TypedTexts(statusUpdate.caseInput) : Update_handleInputChange(value))
        /\ UNCHANGED <<compVars, parseVars, cacheVars, authVars>>

\* A click on the enabled Process button of the status-update page.
UpdateClickProcess ==
    /\ ~Update_ProcessDisabled
    /\ Update_handleProcess
    /\ UNCHANGED <<compVars, parseVars, cacheVars, authVars>>

\* handleProcess run while no status is selected or the input holds no valid
\* identifier.
UpdateSubmitInvalid ==
    /\ ~statusUpdate.loading
    /\ statusUpdate.selectedStatus = "" \/ Len(parseCaseIds(statusUpdate.caseInput)) = 0
    /\ Update_handleProcess
    /\ UNCHANGED <<compVars, parseVars, cacheVars, authVars>>

TimerFires ==
    (\E found \in BOOLEAN : lookupDone(found))
        /\ UNCHANGED <<compVars, parseVars, cacheVars, authVars>>

\* A click on the enabled Clear button of the status-update page.
UpdateClickClear ==
    /\ ~statusUpdate.loading
    /\ Update_handleClear
    /\ UNCHANGED <<compVars, parseVars, cacheVars, authVars>>

\* ------------------------------------------------------------- the steps

\* The user types, scans or pastes.
InputChange ==
    (\E value \in TypedTexts(caseInput) : handleInputChange(value)) /\ UNCHANGED <<parseVars, cacheVars, authVars, updateVars>>

\* A click on the enabled Process button.
ClickProcess == ~ProcessDisabled /\ handleProcess /\ UNCHANGED <<parseVars, cacheVars, authVars, updateVars>>

\* handleProcess run on an input without a valid identifier.
SubmitEmpty ==
    /\ ~loading
    /\ Len(parseCaseIds(caseInput)) = 0
    /\ handleProcess
    /\ UNCHANGED <<parseVars, cacheVars, authVars, updateVars>>

\* A click on the enabled Clear button; the finished run is forgotten.
ClickClear ==
    /\ ~ClearDisabled
    /\ handleClear
    /\ pc' = "idle"
    /\ caseIds' = <<>>
    /\ idx' = 0
    /\ log' = <<>>
    /\ UNCHANGED <<parseVars, cacheVars, authVars, updateVars>>

PrimaryReturns == (\E resp \in PrimaryResponses : PrimaryDone(resp)) /\ UNCHANGED <<parseVars, cacheVars, authVars, updateVars>>

SecondaryReturns == (\E resp \in SecondaryResponses : SecondaryDone(resp)) /\ UNCHANGED <<parseVars, cacheVars, authVars, updateVars>>

Init ==
    /\ CompInit
    /\ parseIn = <<>> /\ parseOut = <<>> /\ parsePc = "off"
    /\ CacheInit
    /\ AuthPinned
    /\ UpdateInit

Next ==
    \/ InputChange
    \/ ClickProcess
    \/ SubmitEmpty
    \/ ClickClear
    \/ PrimaryReturns
    \/ SecondaryReturns

Spec == Init /\ [][Next]_vars

\* The page when every apiPost eventually returns or throws: a suspended
\* handleProcess is eventually resumed.
SpecFair == Spec /\ WF_vars(PrimaryReturns) /\ WF_vars(SecondaryReturns)

\* The parser alone, on every raw text of the bound.
InitParse == CompInit /\ ParseInit /\ CacheInit /\ AuthPinned /\ UpdateInit

NextParse == ParseCall /\ UNCHANGED <<compVars, cacheVars, authVars, updateVars>>

SpecParse == InitParse /\ [][NextParse]_vars

\* The status cache alone, without refreshStatusCache.
InitCache ==
    /\ CompInit
    /\ parseIn = <<>> /\ parseOut = <<>> /\ parsePc = "off"
    /\ CacheInit
    /\ AuthPinned
    /\ UpdateInit

NextCache ==
    \/ CallStatusApi
    \/ StatusesReturn
    \/ OwnerResumes
    \/ WaiterResumes

SpecCache == InitCache /\ [][NextCache]_vars

\* The status cache with refreshStatusCache.
NextRefresh ==
    \/ CallStatusApi
    \/ StatusesReturn
    \/ OwnerResumes
    \/ WaiterResumes
    \/ CallRefresh
    \/ RefresherResumes

SpecRefresh == InitCache /\ [][NextRefresh]_vars

\* Authentication alone: a page load in any state of localStorage and of the
\* Firebase session, then navigation, the two logout functions and reloads.
InitAuth ==
    /\ CompInit
    /\ parseIn = <<>> /\ parseOut = <<>> /\ parsePc = "off"
    /\ CacheInit
    /\ AuthInit
    /\ UpdateInit

NextAuth ==
    \/ AuthMounts
    \/ AuthListenerCalled
    \/ UserNavigates
    \/ ClickLogout
    \/ LayoutSignOutReturns
    \/ CallLogout
    \/ ContextSignOutReturns
    \/ UserReloads
    \/ ApiAnswers401

SpecAuth == InitAuth /\ [][NextAuth]_vars

\* The status-update page alone.
InitUpdate ==
    /\ CompInit
    /\ parseIn = <<>> /\ parseOut = <<>> /\ parsePc = "off"
    /\ CacheInit
    /\ AuthPinned
    /\ UpdateInit

NextUpdate ==
    \/ StatusesFetched
    \/ SelectStatus
    \/ UpdateInputChange
    \/ UpdateClickProcess
    \/ UpdateSubmitInvalid
    \/ TimerFires
    \/ UpdateClickClear

SpecUpdate == InitUpdate /\ [][NextUpdate]_vars

\* ----------------------------------------------------- reading the history

Positions == 1..Len(caseIds)

TerminalKinds == {"existing", "successful", "invalid"}

IsCall(e, endpoint) == e.kind = "call:" \o endpoint

IsReply(e, endpoint) == e.kind = "reply:" \o endpoint

\* The history lines of one kind, in order.
LogSel(kind) == SelectSeq(log, LAMBDA e : e.kind = kind)

Called(pos, endpoint) ==
    \E k \in DOMAIN log : log[k].pos = pos /\ IsCall(log[k], endpoint)

Replied(pos, endpoint) ==
    \E k \in DOMAIN log : log[k].pos = pos /\ IsReply(log[k], endpoint)

ReplyTo(pos, endpoint) ==
    log[CHOOSE k \in DOMAIN log : log[k].pos = pos /\ IsReply(log[k], endpoint)].detail

Happened(pos, kind) ==
    \E k \in DOMAIN log : log[k].pos = pos /\ log[k].kind = kind

Succeeded(resp) == resp.kind = "return" /\ resp.status = "success"

SaidExists(resp) == Succeeded(resp) /\ resp.exists

SaidNew(resp) == Succeeded(resp) /\ ~resp.exists

SecondaryFailedAt(pos) ==
    Replied(pos, SecondaryEndpoint) /\ ~Succeeded(ReplyTo(pos, SecondaryEndpoint))

\* How many entries of a bucket carry the identifier.
CountIn(bucket, id) == Cardinality({n \in DOMAIN bucket : bucket[n].caseId = id})

Occurrences(id) == Cardinality({p \in Positions : caseIds[p] = id})

\* The bucket's n-th entry is the one the n-th history line of the kind tells of.
BucketFollowsLog(bucket, kind) ==
    /\ Len(bucket) = Len(LogSel(kind))
    /\ \A n \in DOMAIN bucket : bucket[n].caseId = LogSel(kind)[n].id

\* The entry of the bucket that belongs to position pos.
EntryFor(bucket, kind, pos) ==
    bucket[CHOOSE n \in DOMAIN LogSel(kind) : LogSel(kind)[n].pos = pos]

\* ---------------------------------------------------------------- claims

\* C1: when the batch completes, every submitted identifier is in exactly one
\* of the buckets existing, successful and invalid (as often as it was
\* submitted), and the pending bucket is empty.
C1_EveryIdentifierTerminal ==
    pc = "done" =>
        /\ processingCases = <<>>
        /\ \A id \in Ids :
              CountIn(existingCases, id) + CountIn(successfulCases, id)
                  + CountIn(invalidCases, id) = Occurrences(id)

\* C2: an identifier whose primary check threw has a batch-level error
\* message recorded and an entry in the failed (invalid) bucket.
C2_PrimaryThrowIsFailed ==
    \A k \in DOMAIN log :
        (IsReply(log[k], PrimaryEndpoint) /\ log[k].detail.kind = "throw") =>
            /\ error # NoError
            /\ \E n \in DOMAIN invalidCases : invalidCases[n].caseId = log[k].id

\* The outcome of position pos is the one its own lookups dictate.
OwnOutcome(pos) ==
    /\ Called(pos, PrimaryEndpoint)
    /\ Replied(pos, PrimaryEndpoint)
    /\ LET first == ReplyTo(pos, PrimaryEndpoint) IN
       /\ SaidExists(first) => Happened(pos, "existing")
       /\ SaidNew(first) =>
             /\ Called(pos, SecondaryEndpoint)
             /\ Replied(pos, SecondaryEndpoint)
             /\ IF Succeeded(ReplyTo(pos, SecondaryEndpoint))
                THEN Happened(pos, "successful") /\ ~Happened(pos, "invalid")
                ELSE Happened(pos, "invalid") /\ ~Happened(pos, "successful")

\* C3: failure isolation. Once the Shopify lookup of position i has failed (a
\* failure response or a thrown error), the primary check of position i+1 is
\* issued, and when the batch completes every later position has had its
\* primary check and the outcome its own lookups dictate.
C3_FailureIsolation ==
    \A i \in Positions :
        SecondaryFailedAt(i) =>
            /\ i < Len(caseIds) => Called(i + 1, PrimaryEndpoint)
            /\ pc = "done" => \A j \in Positions : j > i => OwnOutcome(j)

C3_Witness ==
    /\ pc = "done"
    /\ Len(caseIds) >= 2
    /\ SecondaryFailedAt(1)
    /\ Happened(2, "successful")
    /\ Len(successfulCases) = 1

\* C4: two-phase lookup. The Shopify lookup of a position is issued if and only
\* if its primary check answered that the case does not exist; a position
\* answered as existing has its entry, with the returned record, in the
\* existing bucket and has no Shopify lookup.
C4_TwoPhaseLookup ==
    /\ BucketFollowsLog(existingCases, "existing")
    /\ \A pos \in Positions :
          /\ Called(pos, SecondaryEndpoint) <=>
                (Replied(pos, PrimaryEndpoint) /\ SaidNew(ReplyTo(pos, PrimaryEndpoint)))
          /\ (Replied(pos, PrimaryEndpoint) /\ SaidExists(ReplyTo(pos, PrimaryEndpoint))) =>
                /\ ~Called(pos, SecondaryEndpoint)
                /\ Happened(pos, "existing")
                /\ EntryFor(existingCases, "existing", pos).caseId = caseIds[pos]
                /\ EntryFor(existingCases, "existing", pos).caseData
                       = ReplyTo(pos, PrimaryEndpoint).caseData

C4_Witness ==
    /\ pc = "done"
    /\ Len(caseIds) >= 2
    /\ SaidExists(ReplyTo(1, PrimaryEndpoint))
    /\ existingCases[1].caseData # NoRecord
    /\ Called(2, SecondaryEndpoint)
    /\ ~Called(1, SecondaryEndpoint)

Buckets == <<processingCases, existingCases, invalidCases, successfulCases>>

\* C5: a handleProcess on an input without a valid identifier sets the
\* validation message and nothing else: no lookup is issued, loading stays
\* false, no bucket changes; and a run only starts from a non-empty list.
C5_EmptyBatchRejected ==
    [][ /\ rejected' =>
              /\ Len(parseCaseIds(caseInput)) = 0
              /\ error' = ValidationMessage
              /\ ~loading /\ ~loading'
              /\ log' = log
              /\ pc' = pc
              /\ Buckets' = Buckets
        /\ (~loading /\ Len(parseCaseIds(caseInput)) = 0) => (~loading' /\ log' \in {log, <<>>})
      ]_vars

C5_Witness ==
    /\ rejected
    /\ error = ValidationMessage
    /\ pc = "done"
    /\ existingCases # <<>>
    /\ Len(parseCaseIds(caseInput)) = 0

\* The lines of a text, read off the positions of its newlines.
NewlineAt(text) == {i \in 1..Len(text) : text[i] = NL}

LineCount(text) == Cardinality(NewlineAt(text)) + 1

\* The k-th smallest member of a set of numbers.
Kth(S, k) == CHOOSE x \in S : Cardinality({y \in S : y <= x}) = k

LineOf(text, k) ==
    SubSeq(text,
           Kth(NewlineAt(text) \cup {0}, k) + 1,
           Kth(NewlineAt(text) \cup {Len(text) + 1}, k) - 1)

\* A line without the white space at its two ends.
Trimmed(line) ==
    LET inked == {i \in 1..Len(line) : line[i] \notin WhiteSpace} IN
    IF inked = {} THEN <<>>
    ELSE SubSeq(line,
                CHOOSE i \in inked : \A j \in inked : i <= j,
                CHOOSE i \in inked : \A j \in inked : i >= j)

AllDigits(line) == Len(line) >= 1 /\ \A i \in 1..Len(line) : line[i] \in Digits

DigitLines(text) ==
    SelectSeq([k \in 1..LineCount(text) |-> Trimmed(LineOf(text, k))], AllDigits)

\* C6: parseCaseIds returns, in order and with duplicates, exactly the trimmed
\* lines of the input that are one or more decimal digits; it returns no more
\* elements than the input has lines, and each is all digits.
C6_ParseKeepsDigitLines ==
    parsePc = "done" =>
        /\ parseOut = DigitLines(parseIn)
        /\ Len(parseOut) <= LineCount(parseIn)
        /\ \A n \in DOMAIN parseOut : AllDigits(parseOut[n])
        /\ parseIn = ExampleMixed => parseOut = << <<"1", "2", "3">>, <<"4", "5", "6">> >>
        /\ parseIn = ExampleDup => parseOut = << <<"1">>, <<"1">> >>

C6_Witness ==
    /\ parsePc = "done"
    /\ parseIn = ExampleMixed
    /\ parseOut = << <<"1", "2", "3">>, <<"4", "5", "6">> >>

\* The pending bucket holds nothing, or the one identifier whose Shopify
\* lookup is awaited.
PendingIsCurrent ==
    IF pc = "secondary"
    THEN processingCases = <<PendingEntry(caseIds[idx])>>
    ELSE processingCases = <<>>

\* C7: a position whose Shopify lookup failed, by a failure response or by a
\* thrown error, has its entry in the invalid bucket with the message of the
\* response or error as reason and, when the response gives one, its code; it
\* has no entry in the successful bucket and is not left pending.
C7_SecondaryFailureIsInvalid ==
    /\ BucketFollowsLog(invalidCases, "invalid")
    /\ PendingIsCurrent
    /\ \A pos \in Positions :
          SecondaryFailedAt(pos) =>
              LET resp == ReplyTo(pos, SecondaryEndpoint)
                  entry == EntryFor(invalidCases, "invalid", pos)
              IN
              /\ Happened(pos, "invalid")
              /\ ~Happened(pos, "successful")
              /\ ~Happened(pos, "existing")
              /\ pc = "secondary" => idx # pos
              /\ entry.caseId = caseIds[pos]
              /\ resp.message # NULL => entry.reason = resp.message
              /\ resp.code # NULL => entry.errorCode = resp.code

C7_Witness ==
    /\ pc = "done"
    /\ Len(invalidCases) = 2
    /\ invalidCases[1].reason = "order not found"
    /\ invalidCases[1].errorCode = "NOT_FOUND"
    /\ invalidCases[2].reason = "Failed to fetch"
    /\ ReplyTo(2, SecondaryEndpoint).kind = "throw"

\* C8: a position whose primary check answered that the case does not exist
\* and whose Shopify lookup succeeded has its entry, with the fetched order,
\* in the successful bucket and in no other bucket.
C8_ResolvedCarriesPayload ==
    /\ BucketFollowsLog(successfulCases, "successful")
    /\ PendingIsCurrent
    /\ \A pos \in Positions :
          (/\ Replied(pos, PrimaryEndpoint)
           /\ SaidNew(ReplyTo(pos, PrimaryEndpoint))
           /\ Replied(pos, SecondaryEndpoint)
           /\ Succeeded(ReplyTo(pos, SecondaryEndpoint))) =>
              LET entry == EntryFor(successfulCases, "successful", pos) IN
              /\ Happened(pos, "successful")
              /\ ~Happened(pos, "invalid")
              /\ ~Happened(pos, "existing")
              /\ pc = "secondary" => idx # pos
              /\ entry.caseId = caseIds[pos]
              /\ entry.orderData = ReplyTo(pos, SecondaryEndpoint).orderData

C8_Witness ==
    /\ pc = "done"
    /\ Len(successfulCases) = 1
    /\ successfulCases[1].orderData = "order#A"
    /\ Len(existingCases) + Len(invalidCases) = Len(caseIds) - 1
    /\ Len(caseIds) = 2

\* C9: outcomes are recorded in input order. The history never goes back to
\* an earlier position, the terminal outcome of a position is the last thing
\* recorded for it, and each bucket lists its identifiers in the order of
\* their positions in the submitted sequence.
C9_InputOrder ==
    /\ \A a, b \in DOMAIN log :
          a < b =>
              /\ log[a].pos <= log[b].pos
              /\ (log[a].pos = log[b].pos) => log[a].kind \notin TerminalKinds
    /\ \A k \in DOMAIN log : log[k].pos \in Positions /\ log[k].id = caseIds[log[k].pos]
    /\ BucketFollowsLog(existingCases, "existing")
    /\ BucketFollowsLog(successfulCases, "successful")
    /\ BucketFollowsLog(invalidCases, "invalid")
    /\ \A kind \in TerminalKinds :
          \A m, n \in DOMAIN LogSel(kind) :
              m < n => LogSel(kind)[m].pos < LogSel(kind)[n].pos

C9_Witness ==
    /\ pc = "done"
    /\ Len(invalidCases) = 2
    /\ invalidCases[1].caseId = caseIds[1]
    /\ invalidCases[2].caseId = caseIds[2]
    /\ caseIds[1] # caseIds[2]

InPending(id) == \E n \in DOMAIN processingCases : processingCases[n].caseId = id

Grew(before, after) == Len(after) > Len(before)

Newest(bucket) == bucket[Len(bucket)]

\* C10 as claimed: an identifier enters a terminal bucket (existing,
\* successful or invalid) only from the pending bucket.
C10_TerminalOnlyFromPending ==
    [][ /\ Grew(existingCases, existingCases') => InPending(Newest(existingCases').caseId)
        /\ Grew(successfulCases, successfulCases') => InPending(Newest(successfulCases').caseId)
        /\ Grew(invalidCases, invalidCases') => InPending(Newest(invalidCases').caseId)
      ]_vars

\* C10 as amended: an identifier enters the successful or the invalid bucket
\* only from the pending bucket, which it leaves in the same step; an
\* identifier found in the database enters the existing bucket directly,
\* without having been pending.
C10_ResolvedOrFailedFromPending ==
    [][ /\ Grew(successfulCases, successfulCases') =>
              /\ InPending(Newest(successfulCases').caseId)
              /\ processingCases' = <<>>
        /\ Grew(invalidCases, invalidCases') =>
              /\ InPending(Newest(invalidCases').caseId)
              /\ processingCases' = <<>>
        /\ Grew(existingCases, existingCases') =>
              /\ processingCases = <<>>
              /\ processingCases' = <<>>
              /\ ~Happened(idx, "pending")
      ]_vars

C10_Witness ==
    /\ pc = "done"
    /\ Len(existingCases) = 1
    /\ Len(successfulCases) + Len(invalidCases) = 1

\* ------------------------------------------------------ counts of the run

\* const totalProcessed = processingCases.length + existingCases.length +
\*                        invalidCases.length + successfulCases.length
totalProcessed ==
    Len(processingCases) + Len(existingCases) + Len(invalidCases)
        + Len(successfulCases)

\* The identifiers submitted with the run.
TotalSubmitted == Len(caseIds)

\* A run has begun (and may have completed).
Begun == pc \in {"primary", "secondary", "done"}

TerminalBucket(kind) ==
    IF kind = "existing" THEN existingCases
    ELSE IF kind = "successful" THEN successfulCases
    ELSE invalidCases

\* The terminal buckets that hold an entry of the identifier.
TerminalBucketsOf(id) ==
    {kind \in TerminalKinds :
        \E n \in DOMAIN TerminalBucket(kind) : TerminalBucket(kind)[n].caseId = id}

\* C12: when the batch has completed, the terminal buckets cover every
\* submitted identifier and no identifier is in two different terminal
\* buckets, duplicates and differing answers included.
C12_TerminalPartition ==
    pc = "done" =>
        \A p \in Positions : Cardinality(TerminalBucketsOf(caseIds[p])) = 1

\* ------------------------------------------------------------- the reset

NoEntries == <<<<>>, <<>>, <<>>, <<>>>>

\* C13 as stated: handleClear can be called while a batch is running.
C13_ResetCallableMidRun == loading => ENABLED ClickClear

\* C13: handleClear never runs while a batch is running (its button is
\* disabled while loading), and from a reset until the next batch is
\* submitted the four buckets stay empty.
C13_ResetOnlyBetweenRuns ==
    [][ /\ lastHandler' = "clear" => ~loading /\ ~loading'
        /\ pc' = "idle" => Buckets' = NoEntries ]_vars

\* The state a reset leaves.
C13_Witness ==
    /\ lastHandler = "clear"
    /\ pc = "idle"
    /\ ~loading
    /\ Buckets = NoEntries
    /\ log = <<>>

\* ----------------------------------------------------------- one live run

\* A handleProcess is suspended at one of its awaits.
Suspended == pc \in {"primary", "secondary"}

\* The step is a handleProcess that passed its validation: the history
\* begins anew with the first identifier's primary check.
RunStarts ==
    /\ loading' /\ pc' = "primary" /\ idx' = 1 /\ Len(log') = 1
    /\ <<pc, idx, log>> # <<pc', idx', log'>>

\* C14: a handleProcess only starts while no other handleProcess is
\* suspended: a run starts, and an empty input is rejected, only with loading
\* false and no run in flight.
C14_OneLiveRun ==
    [][ /\ RunStarts => ~loading /\ ~Suspended
        /\ rejected' => ~loading /\ ~Suspended ]_vars

\* A run waits for Shopify while the textarea holds a batch that could be
\* submitted, and the Process button is disabled.
C14_Witness ==
    /\ pc = "secondary"
    /\ loading
    /\ Len(parseCaseIds(caseInput)) > 0
    /\ ProcessDisabled
    /\ ~ENABLED ClickProcess

\* ------------------------------------------------------ one call at a time

IsRemote(e) ==
    \/ IsCall(e, PrimaryEndpoint) \/ IsCall(e, SecondaryEndpoint)
    \/ IsReply(e, PrimaryEndpoint) \/ IsReply(e, SecondaryEndpoint)

\* The calls and replies of the run, in order.
Remote == SelectSeq(log, IsRemote)

\* The calls that have not been answered.
InFlight ==
    LET r == Remote IN
    Cardinality({k \in DOMAIN r : r[k].detail = NoResponse})
        - Cardinality({k \in DOMAIN r : r[k].detail # NoResponse})

\* C15: at most one remote call is in flight: calls and replies alternate,
\* each reply answering the call before it; and the positions never go back,
\* so both lookups of one identifier are answered before the primary check of
\* the next is issued.
C15_OneCallAtATime ==
    LET r == Remote IN
    /\ InFlight = (IF Suspended THEN 1 ELSE 0)
    /\ \A k \in DOMAIN r :
          IF k % 2 = 1
          THEN /\ \/ IsCall(r[k], PrimaryEndpoint)
                  \/ IsCall(r[k], SecondaryEndpoint)
               /\ k > 1 => r[k - 1].pos <= r[k].pos
               /\ (k > 1 /\ IsCall(r[k], PrimaryEndpoint)) =>
                      /\ r[k].pos = r[k - 1].pos + 1
                      /\ \A p \in 1..(r[k].pos - 1) :
                            /\ Replied(p, PrimaryEndpoint)
                            /\ Called(p, SecondaryEndpoint)
                                  => Replied(p, SecondaryEndpoint)
          ELSE /\ r[k].pos = r[k - 1].pos
               /\ \E endpoint \in {PrimaryEndpoint, SecondaryEndpoint} :
                     IsCall(r[k - 1], endpoint) /\ IsReply(r[k], endpoint)

\* The primary check of the second identifier is in flight after both lookups
\* of the first were answered.
C15_Witness ==
    /\ pc = "primary"
    /\ idx = 2
    /\ Replied(1, PrimaryEndpoint)
    /\ Replied(1, SecondaryEndpoint)
    /\ ~Replied(2, PrimaryEndpoint)
    /\ InFlight = 1

\* -------------------------------------------------------------- termination

\* Every identifier of the run has had its outcome: its primary check was
\* answered, and its Shopify lookup too if one was issued.
AllAnswered ==
    \A p \in Positions :
        /\ Replied(p, PrimaryEndpoint)
        /\ Called(p, SecondaryEndpoint) => Replied(p, SecondaryEndpoint)

\* C16: when every remote call eventually returns or throws, every started
\* batch eventually completes with loading false, whatever the lookups
\* answer; the batch completes only after the last identifier's outcome; and
\* after completion no bucket and no error message changes until the next
\* submit or clear.
C16_BatchTerminates ==
    /\ loading ~> (pc = "done" /\ ~loading)
    /\ [](pc = "done" => ~loading /\ idx = Len(caseIds) /\ AllAnswered)
    /\ [][ (pc = "done" /\ pc' = "done" /\ ~rejected')
              => UNCHANGED <<Buckets, error>> ]_vars

\* A batch of two has completed although both primary checks threw.
C16_Witness ==
    /\ pc = "done"
    /\ ~loading
    /\ Len(caseIds) = 2
    /\ \A p \in Positions :
          /\ Replied(p, PrimaryEndpoint)
          /\ ReplyTo(p, PrimaryEndpoint).kind = "throw"

\* ------------------------------------------------------------- append-only

\* The step left the sequence alone or appended one entry to it.
KeptOrAppended(before, after) ==
    \/ after = before
    \/ /\ Len(after) = Len(before) + 1
       /\ SubSeq(after, 1, Len(before)) = before

\* The step is a handleProcess that starts a run from rest.
NewSubmission == ~loading /\ loading'

\* The step is a handleClear, or leaves the page as a handleClear left it.
ResetStep == pc' = "idle"

\* C17: but for a reset and a new submission, no step removes, changes or
\* moves an entry of the existing, successful or invalid bucket: each bucket
\* is left alone or gets one entry appended.
C17_TerminalAppendOnly ==
    [][ (~ResetStep /\ ~NewSubmission) =>
            /\ KeptOrAppended(existingCases, existingCases')
            /\ KeptOrAppended(successfulCases, successfulCases')
            /\ KeptOrAppended(invalidCases, invalidCases') ]_vars

\* Two different identifiers were fetched from Shopify: the first one's entry
\* is still the first after the second was appended.
C17_Witness ==
    /\ pc = "done"
    /\ Len(caseIds) = 2
    /\ caseIds[1] # caseIds[2]
    /\ Len(successfulCases) = 2
    /\ successfulCases[1].caseId = caseIds[1]
    /\ successfulCases[2].caseId = caseIds[2]

\* C18: right after a handleClear the input is empty, the four buckets are
\* empty and there is no error message; handleClear can be called again and
\* a second call changes nothing.
C18_ResetIdempotent ==
    lastHandler = "clear" =>
        /\ caseInput = <<>>
        /\ Buckets = NoEntries
        /\ error = NoError
        /\ ENABLED ClickClear
        /\ ~ENABLED (ClickClear /\ vars' # vars)

\* A reset has run and the Clear button can be clicked again.
C18_Witness ==
    /\ lastHandler = "clear"
    /\ ~ClearDisabled
    /\ ENABLED ClickClear
    /\ caseInput = <<>>
    /\ error = NoError

\* -------------------------------------------------------- a new submission

\* Every entry of the four buckets tells of an identifier of the running or
\* finished batch, at the position the history gives it.
OnlyLatestBatch ==
    /\ BucketFollowsLog(existingCases, "existing")
    /\ BucketFollowsLog(successfulCases, "successful")
    /\ BucketFollowsLog(invalidCases, "invalid")
    /\ \A n \in DOMAIN processingCases :
          Happened(idx, "pending") /\ processingCases[n].caseId = caseIds[idx]
    /\ \A k \in DOMAIN log :
          log[k].pos \in Positions /\ log[k].id = caseIds[log[k].pos]

\* C19: a handleProcess that starts a run empties the four buckets and the
\* error message in the step that issues the run's first remote call, and
\* takes the identifiers of the input as the batch; from then on the buckets
\* hold outcomes of that batch only.
C19_NewBatchReplacesRun ==
    /\ [][ NewSubmission =>
              /\ Buckets' = NoEntries
              /\ error' = NoError
              /\ caseIds' = parseCaseIds(caseInput)
              /\ log' = <<Call(1, caseIds'[1], PrimaryEndpoint)>> ]_vars
    /\ [](Begun => OnlyLatestBatch)

\* A batch was submitted over the results of a finished run: its first
\* primary check is in flight and nothing of the old run is left.
C19_Witness ==
    /\ lastHandler = "restart"
    /\ loading
    /\ pc = "primary"
    /\ Len(log) = 1
    /\ Buckets = NoEntries
    /\ error = NoError

\* ------------------------------------------------- loading the statuses

\* The statuses requests issued so far.
RequestsIssued == Len(fetches)

\* C20 as stated: over every interleaving of calls of the entry points, the
\* statuses request is issued at most once.
C20_RequestIssuedOnce == RequestsIssued <= 1

\* C20: a statuses request is issued only when every earlier one has settled
\* without storing the statuses: never while a fetch is in progress, whose
\* promise the callers share, and never after a fetch has loaded the cache.
C20_RequestOnlyAfterFailure ==
    /\ \A f \in DOMAIN fetches :
          f < Len(fetches) =>
              fetches[f].state = "settled" /\ ~fetches[f].cached
    /\ statusCache.loaded =>
          /\ fetches # <<>>
          /\ fetches[Len(fetches)].cached
          /\ fetches[Len(fetches)].value = statusCache.statuses
    /\ \A c \in DOMAIN calls :
          calls[c].pc \in {"own", "shared"} => calls[c].promise \in DOMAIN fetches

\* A second call shared the first call's fetch; the fetch failed, and the
\* third call issued the request again.
C20_Witness ==
    /\ Len(calls) = 3
    /\ calls[1].promise = 1
    /\ calls[2].promise = 1
    /\ calls[2].pc = "done"
    /\ fetches[1] = SettledFetch(FALSE, <<>>)
    /\ calls[3].promise = 2
    /\ RequestsIssued = 2

\* ------------------------------------------------------------------ logout

\* C21: once Layout.handleLogout or the context's logout has completed,
\* localStorage holds neither authToken nor user, currentUser is null, and no
\* protected route is shown.
C21_LogoutSignsOut ==
    loggedOut # "no" =>
        /\ ~storage.authToken
        /\ ~storage.user
        /\ currentUser = NULL
        /\ location \notin ProtectedRoutes

\* ------------------------------------------------------ the pending event

\* C22 as stated: the pending event of an identifier is emitted before its
\* primary check is called.
C22_PendingBeforePrimary ==
    \A k \in DOMAIN log :
        IsCall(log[k], PrimaryEndpoint) =>
            \E j \in 1..(k - 1) : log[j].kind = "pending" /\ log[j].pos = log[k].pos

\* C22: the pending event of an identifier is emitted when its primary check
\* has answered that the case is new, and right before its Shopify lookup is
\* called; no lookup is called without it, and the pending events come in
\* input order.
C22_PendingBeforeSecondary ==
    /\ \A k \in DOMAIN log :
          log[k].kind = "pending" =>
              /\ k > 1 /\ k < Len(log)
              /\ IsReply(log[k - 1], PrimaryEndpoint)
              /\ log[k - 1].pos = log[k].pos
              /\ SaidNew(log[k - 1].detail)
              /\ IsCall(log[k + 1], SecondaryEndpoint)
              /\ log[k + 1].pos = log[k].pos
    /\ \A k \in DOMAIN log :
          IsCall(log[k], SecondaryEndpoint) =>
              k > 1 /\ log[k - 1].kind = "pending" /\ log[k - 1].pos = log[k].pos
    /\ \A k \in DOMAIN log :
          (IsReply(log[k], PrimaryEndpoint) /\ SaidNew(log[k].detail)) =>
              k < Len(log) /\ log[k + 1].kind = "pending"
    /\ \A j, k \in DOMAIN log :
          (j < k /\ log[j].kind = "pending" /\ log[k].kind = "pending") =>
              log[j].pos < log[k].pos

\* The first identifier was found in the database and never was pending; the
\* second is pending while its Shopify lookup is in flight.
C22_Witness ==
    /\ pc = "secondary"
    /\ idx = 2
    /\ Happened(1, "existing")
    /\ ~Happened(1, "pending")
    /\ Happened(2, "pending")
    /\ processingCases = <<PendingEntry(caseIds[2])>>

\* ---------------------------------------------------- atomic bucket updates

\* The position's entry is in the pending bucket.
PendingAt(pos) ==
    pc = "secondary" /\ idx = pos /\ InPending(caseIds[pos])

\* The position's entry is in the successful or the invalid bucket.
SettledAt(pos) ==
    \/ /\ Happened(pos, "successful")
       /\ EntryFor(successfulCases, "successful", pos).caseId = caseIds[pos]
    \/ /\ Happened(pos, "invalid")
       /\ EntryFor(invalidCases, "invalid", pos).caseId = caseIds[pos]

ErrorEvents == LogSel("error")

\* The message the run should show: none before the first error, then the
\* one of the last error.
LatestErrorText ==
    IF ErrorEvents = <<>>
    THEN NoError
    ELSE LET last == ErrorEvents[Len(ErrorEvents)]
         IN  ErrorText(last.id, ReplyTo(last.pos, PrimaryEndpoint).message)

\* C24: during a run the error message is null until the first error caught
\* for an identifier and from then on the message of the latest such error;
\* the run completes with that message; and after an error the loop goes on
\* with the next identifier.
C24_LatestErrorWins ==
    /\ [](loading => error = LatestErrorText)
    /\ [][ (loading /\ ~loading') => error' = LatestErrorText' ]_vars
    /\ [](\A k \in DOMAIN log :
            (log[k].kind = "error" /\ log[k].pos < Len(caseIds)) =>
                /\ k < Len(log)
                /\ IsCall(log[k + 1], PrimaryEndpoint)
                /\ log[k + 1].pos = log[k].pos + 1)

\* The primary checks of two different identifiers threw: the message shown
\* after the run is the second one's.
C24_Witness ==
    /\ pc = "done"
    /\ Len(ErrorEvents) = 2
    /\ caseIds[1] # caseIds[2]
    /\ error = ErrorText(caseIds[2], ReplyTo(2, PrimaryEndpoint).message)
    /\ error # ErrorText(caseIds[1], ReplyTo(1, PrimaryEndpoint).message)

\* The positions that ended in an error of any kind: a primary check that
\* threw, or a Shopify lookup that failed.
FailureEvents == SelectSeq(log, LAMBDA e : e.kind \in {"error", "invalid"})

\* C24 as stated: during a run the error message is null until the first
\* identifier fails and from then on tells of the identifier that failed last.
C24_LastFailureWins ==
    loading =>
        IF FailureEvents = <<>>
        THEN error = NoError
        ELSE error # NoError /\ error[2] = FailureEvents[Len(FailureEvents)].id

\* ------------------------------------------------------- no silent drop

\* C25: a position whose primary check returned a response, whatever its
\* status, is in the existing bucket or was made pending, and when the run
\* has completed it is in the existing, the successful or the invalid bucket.
C25_NoSilentDrop ==
    \A pos \in Positions :
        (Replied(pos, PrimaryEndpoint) /\ ReplyTo(pos, PrimaryEndpoint).kind = "return") =>
            /\ Happened(pos, "existing") \/ Happened(pos, "pending")
            /\ pc = "done" => \E kind \in TerminalKinds : Happened(pos, kind)

\* ------------------------------------------------- edits during a run

\* const totalCaseIds = parseCaseIds(caseInput).length
totalCaseIds == Len(parseCaseIds(caseInput))

\* C26: a step that changes the input text while a batch is running changes
\* neither the identifiers of the run nor its position, its history, any
\* bucket or the error message; what is processed are the identifiers taken
\* at the submission, in their order. The displayed total is computed from
\* the text and so follows it.
C26_RunFixedAtSubmission ==
    /\ [][ (loading /\ caseInput' # caseInput) =>
              UNCHANGED <<caseIds, idx, pc, log, Buckets, error, loading>> ]_vars
    /\ [][ (loading /\ loading') => caseIds' = caseIds ]_vars
    /\ [][ NewSubmission => caseIds' = parseCaseIds(caseInput) ]_vars
    /\ [](\A k \in DOMAIN log :
            log[k].pos \in Positions /\ log[k].id = caseIds[log[k].pos])

\* A batch of one identifier is running and the text was emptied meanwhile:
\* the displayed total is 0 and the run still works on its identifier.
C26_Witness ==
    /\ loading
    /\ pc = "secondary"
    /\ caseInput = <<>>
    /\ totalCaseIds = 0
    /\ TotalSubmitted = 1
    /\ processingCases = <<PendingEntry(caseIds[1])>>

\* ------------------------------------------------------ the pending bucket

\* C27: the pending bucket holds at most one entry; it holds one exactly
\* while a Shopify lookup is in flight, and that entry is the one of the
\* identifier being processed; the step that ends the lookup empties the
\* bucket, also when the batch holds the identifier twice.
C27_PendingAtMostOne ==
    /\ [](/\ Len(processingCases) <= 1
          /\ processingCases # <<>> <=> pc = "secondary"
          /\ pc = "secondary" =>
                /\ processingCases = <<PendingEntry(caseIds[idx])>>
                /\ Called(idx, SecondaryEndpoint)
                /\ ~Replied(idx, SecondaryEndpoint))
    /\ [][ (pc = "secondary" /\ log' # log) =>
              /\ processingCases' = <<>>
              /\ Len(processingCases) - Len(processingCases') = 1 ]_vars

\* The same identifier was submitted twice: its first entry has left the
\* pending bucket, and its second entry is the only one there.
C27_Witness ==
    /\ Len(caseIds) = 2
    /\ caseIds[1] = caseIds[2]
    /\ pc = "secondary"
    /\ idx = 2
    /\ Happened(1, "pending")
    /\ Len(processingCases) = 1

\* ------------------------------------------------- refreshing the statuses

PendingFetches == {f \in DOMAIN fetches : fetches[f].state = "pending"}

CachedFetches == {f \in DOMAIN fetches : fetches[f].state = "settled" /\ fetches[f].cached}

\* The fetch issued last among those that stored the statuses.
LatestCached == CHOOSE f \in CachedFetches : \A g \in CachedFetches : g <= f

\* C28: at most one statuses fetch is in flight at any time, refreshes
\* included, and when no fetch is in flight and some fetch has succeeded, the
\* cache holds the result of the latest successful fetch.
C28_OneFetchInFlight ==
    /\ Cardinality(PendingFetches) <= 1
    /\ (PendingFetches = {} /\ CachedFetches # {}) =>
          statusCache = Loaded(fetches[LatestCached].value)

\* ------------------------------------------- the status-update page's run

\* How many entries of a bucket carry the identifier.
EntriesOf(bucket, caseId) == Cardinality({i \in DOMAIN bucket : bucket[i].caseId = caseId})

\* How many of the first n submitted identifiers are the identifier.
SubmittedOf(caseId, n) ==
    Cardinality({i \in 1..n : statusUpdate.caseIds[i] = caseId})

\* The identifiers of the run whose simulated lookup is over.
UpdateSettled ==
    IF statusUpdate.pc = "setTimeout" THEN statusUpdate.idx - 1 ELSE Len(statusUpdate.caseIds)

\* C29: while a batch of the status-update page runs, the processing bucket
\* holds exactly the identifier being looked up, and every identifier looked
\* up before it is in the successful or the not-found bucket, once per
\* occurrence; a lookup's end appends the identifier to exactly one of the two
\* buckets; at completion the processing bucket is empty and the two buckets
\* together hold as many entries as identifiers were submitted, duplicates
\* included.
C29_EachIdInOneBucket ==
    /\ [](statusUpdate.pc \in {"setTimeout", "done"} =>
            /\ statusUpdate.processingCases =
                  IF statusUpdate.pc = "setTimeout"
                  THEN <<ProcessingEntry(statusUpdate.caseIds[statusUpdate.idx])>>
                  ELSE <<>>
            /\ Len(statusUpdate.successfulCases) + Len(statusUpdate.notFoundCases)
                  = UpdateSettled
            /\ statusUpdate.pc = "done" => UpdateSettled = Len(statusUpdate.caseIds)
            /\ \A caseId \in Ids :
                  EntriesOf(statusUpdate.successfulCases, caseId)
                     + EntriesOf(statusUpdate.notFoundCases, caseId)
                  = SubmittedOf(caseId, UpdateSettled))
    /\ [][(statusUpdate.pc = "setTimeout" /\ statusUpdate'.handler = "setTimeout") =>
            LET caseId == statusUpdate.caseIds[statusUpdate.idx] IN
            /\ ProcessingEntry(caseId) \in
                  {statusUpdate.processingCases[i] : i \in DOMAIN statusUpdate.processingCases}
            /\ \/ /\ statusUpdate'.successfulCases =
                        Append(statusUpdate.successfulCases, ReadyEntry(caseId))
                  /\ statusUpdate'.notFoundCases = statusUpdate.notFoundCases
               \/ /\ statusUpdate'.notFoundCases =
                        Append(statusUpdate.notFoundCases, NotFoundEntry(caseId))
                  /\ statusUpdate'.successfulCases = statusUpdate.successfulCases]_vars

\* A batch with a duplicate identifier is complete, one occurrence in each
\* bucket.
C29_Witness ==
    /\ statusUpdate.pc = "done"
    /\ statusUpdate.caseIds = <<<<"1">>, <<"1">>>>
    /\ Len(statusUpdate.successfulCases) = 1
    /\ Len(statusUpdate.notFoundCases) = 1

\* C30: a handleProcess of the status-update page called while no status is
\* selected starts no run, whatever the input holds: the error becomes the
\* missing-status message, also when the input holds no valid identifier,
\* loading stays false and the three buckets and the run's position are left
\* as they were.
C30_NoStatusNoRun ==
    [][(statusUpdate'.handler = "handleProcess" /\ statusUpdate.selectedStatus = "") =>
          /\ statusUpdate'.error = MissingStatusMessage
          /\ ~statusUpdate.loading /\ ~statusUpdate'.loading
          /\ statusUpdate'.processingCases = statusUpdate.processingCases
          /\ statusUpdate'.successfulCases = statusUpdate.successfulCases
          /\ statusUpdate'.notFoundCases = statusUpdate.notFoundCases
          /\ statusUpdate'.pc = statusUpdate.pc
          /\ statusUpdate'.caseIds = statusUpdate.caseIds
          /\ statusUpdate'.caseInput = statusUpdate.caseInput]_vars

\* handleProcess has just run without a status on an input without a valid
\* identifier, and the results of an earlier batch are still shown.
C30_Witness ==
    /\ statusUpdate.handler = "handleProcess"
    /\ statusUpdate.selectedStatus = ""
    /\ Len(parseCaseIds(statusUpdate.caseInput)) = 0
    /\ statusUpdate.error = MissingStatusMessage
    /\ statusUpdate.successfulCases # <<>>
    /\ ~statusUpdate.loading

====
